---- MODULE Spec2Model ----
(***************************************************************************)
(* A model of wind-pypcd's fusion layer (src/main.py): transform           *)
(* validation, finite-value filtering, homogeneous transform application,  *)
(* oriented-box exclusion and the three fusion entry points, on top of a   *)
(* model of the PCD codec they call (wind_pypcd.pypcd).                    *)
(*                                                                         *)
(* Numbers.  A numeric cell is a record: a finite value [k="fin", v=n]     *)
(* with n an integer, or one of NaN, +Inf, -Inf.  Finite arithmetic is     *)
(* exact integer arithmetic (it is exact in float64 for the magnitudes     *)
(* used here); the conversion to 32-bit float is modelled by what it does: *)
(* rounding to a 24-bit significand, ties to even.                         *)
(***************************************************************************)
EXTENDS Integers, Sequences, FiniteSets, TLC

VARIABLES pc, call, loc, ret

vars == <<pc, call, loc, ret>>

----------------------------------------------------------------------------
(* Bounds of the model. *)

\* Matrices of every shape r x c, 1 <= r, c <= MaxDim, are offered to the validator.
MaxDim == 5
\* Box tests are run on the points of the grid -MaxGrid..MaxGrid in x, y and z.
MaxGrid == 2
\* Ignore-area lists hold at most MaxBoxes boxes.
MaxBoxes == 2
\* fusion_pcd and fusion_pcd_bytes calls hold at most MaxSensors sensors.
MaxSensors == 3
\* fuse_pointclouds calls hold at most MaxEntries entries.
MaxEntries == 2

----------------------------------------------------------------------------
(* Numeric cells. *)

Fin(n) == [k |-> "fin", v |-> n]
NaN == [k |-> "nan", v |-> 0]
PInf == [k |-> "inf", v |-> 1]
NInf == [k |-> "inf", v |-> -1]
NonFinite == {NaN, PInf, NInf}

\* np.isfinite on one cell.
isfinite(a) == a.k = "fin"

Abs(n) == IF n < 0 THEN -n ELSE n

\* The significand width of a 32-bit float.
MantissaBits == 24

RECURSIVE UlpFor(_, _, _, _)
\* The spacing of the numbers with `digits` significant digits in `base` around
\* magnitude m: the least power s of base with m < base^digits * s.
UlpFor(m, s, base, digits) ==
    IF m \div s < base ^ digits THEN s ELSE UlpFor(m, base * s, base, digits)

\* Round-to-nearest, ties-to-even, of num/den to `digits` significant digits of
\* `base` (for magnitudes of at least base^digits, where the result is an integer).
RoundRat(num, den, base, digits) ==
    LET m == Abs(num)
        s == UlpFor(m \div den, 1, base, digits)
        q == m \div (den * s)
        r == m % (den * s)
        up == IF 2 * r > den * s THEN 1
              ELSE IF 2 * r < den * s THEN 0
              ELSE q % 2
        res == (q + up) * s
    IN  IF num < 0 THEN -res ELSE res

\* Round-to-nearest, ties-to-even, of the integer n to `digits` significant digits.
RoundSig(n, base, digits) == RoundRat(n, 1, base, digits)

\* The nearest 32-bit float of the integer n.
RoundF32(n) == RoundSig(n, 2, MantissaBits)

\* A dropped conversion: the value passes through unrounded.
AstypeFloat32_Mut(a) == a

\* ndarray.astype(np.float32) on one cell.
AstypeFloat32(a) == IF isfinite(a) THEN Fin(RoundF32(a.v)) ELSE a

\* astype(np.float32) on an N x 4 array.
AstypeFloat32Rows(rows) ==
    [i \in 1..Len(rows) |-> [j \in 1..Len(rows[i]) |-> AstypeFloat32(rows[i][j])]]

----------------------------------------------------------------------------
(* Sequence helpers for numpy idioms. *)

RECURSIVE MaskSelect(_, _)
\* a[mask]: boolean-mask indexing keeps the entries whose mask bit is set, in order.
MaskSelect(s, mask) ==
    IF s = <<>> THEN <<>>
    ELSE (IF Head(mask) THEN <<Head(s)>> ELSE <<>>) \o MaskSelect(Tail(s), Tail(mask))

\* np.any(mask)
AnyTrue(mask) == \E i \in 1..Len(mask) : mask[i]

\* The k-th smallest element of a set of indices.
Kth(F, k) == CHOOSE i \in F : Cardinality({j \in F : j <= i}) = k

\* The elements of s at the indices in F, in increasing index order.
Pick(s, F) == [k \in 1..Cardinality(F) |-> s[Kth(F, k)]]

RECURSIVE Flatten_Mut(_)
\* Each array is stacked in front of the ones before it.
Flatten_Mut(arrays) ==
    IF arrays = <<>> THEN <<>> ELSE Flatten_Mut(Tail(arrays)) \o Head(arrays)

RECURSIVE Flatten(_)
\* np.vstack of a list of arrays: the rows of each array, in list order.
Flatten(arrays) ==
    IF arrays = <<>> THEN <<>> ELSE Head(arrays) \o Flatten(Tail(arrays))

----------------------------------------------------------------------------
(* Transform matrices.  A transform is [ndarray, rows]: whether the object *)
(* is a numpy array, and its entries row by row.                           *)

Mat(rows) == [ndarray |-> TRUE, rows |-> rows]

Shape(t) == <<Len(t.rows), IF Len(t.rows) = 0 THEN 0 ELSE Len(t.rows[1])>>

\* np.eye(r, c)
Eye(r, c) == Mat([i \in 1..r |-> [j \in 1..c |-> Fin(IF i = j THEN 1 ELSE 0)]])

IntMat(m) == Mat([i \in 1..Len(m) |-> [j \in 1..Len(m[i]) |-> Fin(m[i][j])]])

Identity == Eye(4, 4)
Translate == IntMat(<< <<1, 0, 0, 1>>, <<0, 1, 0, 2>>, <<0, 0, 1, -1>>, <<0, 0, 0, 1>> >>)
RotZ == IntMat(<< <<0, -1, 0, 0>>, <<1, 0, 0, 0>>, <<0, 0, 1, 0>>, <<0, 0, 0, 1>> >>)
\* A finite 4x4 matrix whose last row is not [0,0,0,1].
Projective == IntMat(<< <<2, 0, 0, 1>>, <<0, 1, 1, 0>>, <<0, 0, 1, 0>>, <<1, 0, 1, 3>> >>)

ValidTransforms == {Identity, Translate, RotZ, Projective}

WithEntry(t, r, c, a) == [t EXCEPT !.rows[r][c] = a]

\* The same entries held in a nested list instead of a numpy array.
AsList(t) == [t EXCEPT !.ndarray = FALSE]

\* Every way of spoiling one entry of a valid transform.
SpoiledTransforms ==
    {WithEntry(t, r, c, a) : t \in {Identity, Projective}, r \in 1..4, c \in 1..4,
                             a \in NonFinite}

WrongShapes == {Eye(r, c) : r \in 1..MaxDim, c \in 1..MaxDim} \ {Identity}

Transforms ==
    ValidTransforms \cup SpoiledTransforms \cup WrongShapes \cup {AsList(Identity)}

\* np.isfinite(transform).all()
AllFinite(t) ==
    \A i \in 1..Len(t.rows) : \A j \in 1..Len(t.rows[i]) : isfinite(t.rows[i][j])

\* The shape test alone: the entries are never examined.
ValidateTransformMatrix_Mut(t) ==
    IF ~t.ndarray THEN "Transform must be a numpy array"
    ELSE IF Shape(t) # <<4, 4>> THEN "Transform must be a 4x4 matrix"
    ELSE "ok"

\* _validate_transform_matrix: "ok", or the message of the ValueError raised.
ValidateTransformMatrix(t) ==
    IF ~t.ndarray THEN "Transform must be a numpy array"
    ELSE IF Shape(t) # <<4, 4>> THEN "Transform must be a 4x4 matrix"
    ELSE IF ~AllFinite(t) THEN "Transform matrix contains invalid values (NaN or Inf)"
    ELSE "ok"

\* The ValueErrors that mean InvalidTransform.
InvalidTransformErrors ==
    {"Transform must be a numpy array", "Transform must be a 4x4 matrix",
     "Transform matrix contains invalid values (NaN or Inf)"}

----------------------------------------------------------------------------
(* Results of a call: a value, or the message of the exception raised.     *)

Ok(v) == [err |-> "", val |-> v]
Raise(msg) == [err |-> msg]
Raised(r) == r.err # ""

----------------------------------------------------------------------------
(* PointCloud objects: [md, pc_data].  pc_data is the structured array,    *)
(* one row per point and one cell per field (every field has count 1).     *)

FieldSet(cloud) == {cloud.md.fields[i] : i \in 1..Len(cloud.md.fields)}

FieldIndex(cloud, name) == CHOOSE i \in 1..Len(cloud.md.fields) : cloud.md.fields[i] = name

\* pc.pc_data[name].flatten()
Column(cloud, name) ==
    [i \in 1..Len(cloud.pc_data) |-> cloud.pc_data[i][FieldIndex(cloud, name)]]

RequiredFields == {"x", "y", "z", "intensity"}

\* _extract_point_cloud_data: the four columns, or the ValueError for a missing field.
ExtractPointCloudData(cloud) ==
    IF ~(RequiredFields \subseteq FieldSet(cloud))
    THEN Raise("Missing required field in point cloud")
    ELSE Ok([x |-> Column(cloud, "x"), y |-> Column(cloud, "y"),
             z |-> Column(cloud, "z"), intensity |-> Column(cloud, "intensity")])

\* A mask that forgets the intensity column.
FiniteMask_Mut(x, y, z, intensity) ==
    [i \in 1..Len(x) |-> isfinite(x[i]) /\ isfinite(y[i]) /\ isfinite(z[i])]

\* np.isfinite(x) & np.isfinite(y) & np.isfinite(z) & np.isfinite(intensity)
FiniteMask(x, y, z, intensity) ==
    [i \in 1..Len(x) |->
        isfinite(x[i]) /\ isfinite(y[i]) /\ isfinite(z[i]) /\ isfinite(intensity[i])]

\* np.column_stack of equally long columns.
ColumnStack(cols) ==
    [i \in 1..Len(cols[1]) |-> [j \in 1..Len(cols) |-> cols[j][i]]]

\* One entry of transform @ p, for finite cells.
Dot4(trow, p) ==
    Fin(trow[1].v * p[1].v + trow[2].v * p[2].v + trow[3].v * p[3].v + trow[4].v * p[4].v)

\* (transform @ points_homo.T).T
MatMulRows(t, homo) ==
    [i \in 1..Len(homo) |-> [j \in 1..4 |-> Dot4(t.rows[j], homo[i])]]

\* The homogeneous weight is left in the 4th column.
SetIntensityColumn_Mut(rows, intensity) == rows

\* transformed_points[:, 3] = intensity_valid
SetIntensityColumn(rows, intensity) ==
    [i \in 1..Len(rows) |-> [rows[i] EXCEPT ![4] = intensity[i]]]

\* _apply_transform_to_points
ApplyTransformToPoints(x, y, z, intensity, t) ==
    LET valid_mask == FiniteMask(x, y, z, intensity)
        x_valid == MaskSelect(x, valid_mask)
        y_valid == MaskSelect(y, valid_mask)
        z_valid == MaskSelect(z, valid_mask)
        intensity_valid == MaskSelect(intensity, valid_mask)
        ones == [i \in 1..Len(x_valid) |-> Fin(1)]
        points_homo == ColumnStack(<<x_valid, y_valid, z_valid, ones>>)
        transformed_points == MatMulRows(t, points_homo)
    IN  IF ~AnyTrue(valid_mask)
        THEN Raise("No valid points found after filtering NaN values")
        ELSE Ok(AstypeFloat32Rows(SetIntensityColumn(transformed_points, intensity_valid)))

\* transform_point_cloud
TransformPointCloud(cloud, t) ==
    LET v == ValidateTransformMatrix(t)
        e == ExtractPointCloudData(cloud)
    IN  IF v # "ok" THEN Raise(v)
        ELSE IF Raised(e) THEN e
        ELSE ApplyTransformToPoints(e.val.x, e.val.y, e.val.z, e.val.intensity, t)

----------------------------------------------------------------------------
(* Ignore boxes.  A box is a function from its keys to integers.  yaw is   *)
(* counted in quarter turns (yaw = q stands for q * pi/2), for which the   *)
(* rotation matrix has the exact entries below.                            *)

CosQ(q) == CASE q % 4 = 0 -> 1 [] q % 4 = 1 -> 0 [] q % 4 = 2 -> -1 [] OTHER -> 0
SinQ(q) == CASE q % 4 = 0 -> 0 [] q % 4 = 1 -> 1 [] q % 4 = 2 -> 0 [] OTHER -> -1

BoxRequiredKeys == {"x", "y", "z", "length", "width", "height"}

\* box.get("yaw", 0.0)
BoxYaw(box) == IF "yaw" \in DOMAIN box THEN box["yaw"] ELSE 0

\* points[:, :3] - [cx, cy, cz], then the rotation by -yaw when yaw != 0:
\* the box-local coordinates of one point.
BoxLocal(p, box) ==
    LET tx == p[1].v - box["x"]
        ty == p[2].v - box["y"]
        tz == p[3].v - box["z"]
        yaw == BoxYaw(box)
        cos_yaw == CosQ(-yaw)
        sin_yaw == SinQ(-yaw)
    IN  IF yaw # 0
        THEN <<cos_yaw * tx - sin_yaw * ty, sin_yaw * tx + cos_yaw * ty, tz>>
        ELSE <<tx, ty, tz>>

\* An open boundary: strict comparisons.
InsideLocal_Mut(l, box) ==
    /\ 2 * Abs(l[1]) < box["length"]
    /\ 2 * Abs(l[2]) < box["width"]
    /\ 2 * Abs(l[3]) < box["height"]

\* inside_x & inside_y & inside_z, with |t| <= extent / 2.0 written 2|t| <= extent.
InsideLocal(l, box) ==
    /\ 2 * Abs(l[1]) <= box["length"]
    /\ 2 * Abs(l[2]) <= box["width"]
    /\ 2 * Abs(l[3]) <= box["height"]

\* _point_in_3d_box: the membership mask of an array of finite points.
PointIn3dBox(points, box) ==
    [i \in 1..Len(points) |-> InsideLocal(BoxLocal(points[i], box), box)]

\* A box is tested alone: the masks are not accumulated.
IgnoreMask_Mut(points, boxes) ==
    IF boxes = <<>> THEN [i \in 1..Len(points) |-> FALSE]
    ELSE PointIn3dBox(points, boxes[Len(boxes)])

\* points_to_ignore after the loop over the boxes: the OR of the per-box masks.
IgnoreMask(points, boxes) ==
    [i \in 1..Len(points) |-> \E b \in 1..Len(boxes) : PointIn3dBox(points, boxes[b])[i]]

\* A box that lacks a key is passed over instead of raising.
FilterPointsByIgnoreAreas_Mut(points, ignore_areas) ==
    LET good == Pick(ignore_areas,
                     {b \in 1..Len(ignore_areas) : BoxRequiredKeys \subseteq DOMAIN ignore_areas[b]})
    IN  Ok(MaskSelect(points, [i \in 1..Len(points) |-> ~IgnoreMask(points, good)[i]]))

\* _filter_points_by_ignore_areas
FilterPointsByIgnoreAreas(points, ignore_areas) ==
    IF ignore_areas = <<>> THEN Ok(points)
    ELSE IF \E b \in 1..Len(ignore_areas) : ~(BoxRequiredKeys \subseteq DOMAIN ignore_areas[b])
    THEN Raise("Box must contain keys")
    ELSE Ok(MaskSelect(points,
                       [i \in 1..Len(points) |-> ~IgnoreMask(points, ignore_areas)[i]]))

----------------------------------------------------------------------------
(* The PCD codec (wind_pypcd.pypcd).  A PCD byte string is [header,        *)
(* payload]: the header is its text lines, each a sequence of string       *)
(* tokens; the payload is laid out as its DATA tag says.                   *)

\* Decimal text of the small naturals a header holds.
NumTok == <<"0", "1", "2", "3", "4", "5", "6", "7", "8", "9", "10", "11", "12",
            "13", "14", "15", "16">>
IsNumeric(s) == \E i \in 1..Len(NumTok) : NumTok[i] = s
StrToInt(s) == (CHOOSE i \in 1..Len(NumTok) : NumTok[i] = s) - 1
IntToStr(n) == NumTok[n + 1]

\* TypeMap: numpy element type <-> (PCD type code, byte width).
NumpyTypes == {"f4", "f8", "u1", "u2", "u4", "u8", "i1", "i2", "i4", "i8"}
PcdTypeOf(fmt) ==
    CASE fmt \in {"f4", "f8"} -> "F"
      [] fmt \in {"u1", "u2", "u4", "u8"} -> "U"
      [] OTHER -> "I"
PcdSizeOf(fmt) ==
    CASE fmt \in {"u1", "i1"} -> 1
      [] fmt \in {"u2", "i2"} -> 2
      [] fmt \in {"f4", "u4", "i4"} -> 4
      [] OTHER -> 8
NumpyTypeOf(type, size) ==
    IF \E f \in NumpyTypes : PcdTypeOf(f) = type /\ PcdSizeOf(f) = size
    THEN CHOOSE f \in NumpyTypes : PcdTypeOf(f) = type /\ PcdSizeOf(f) = size
    ELSE "unsupported"

DefaultViewpoint == <<0, 0, 0, 1, 0, 0, 0>>
ValidCompressions == {"ascii", "binary", "binary_compressed"}

\* PointCloud.from_array: metadata reflected off a structured array
\* [dtype, rows], dtype a sequence of <<name, numpy type>>.
FromArray(arr) ==
    [md |-> [version |-> ".7",
             fields |-> [i \in 1..Len(arr.dtype) |-> arr.dtype[i][1]],
             size |-> [i \in 1..Len(arr.dtype) |-> PcdSizeOf(arr.dtype[i][2])],
             type |-> [i \in 1..Len(arr.dtype) |-> PcdTypeOf(arr.dtype[i][2])],
             count |-> [i \in 1..Len(arr.dtype) |-> 1],
             width |-> Len(arr.rows),
             height |-> 1,
             viewpoint |-> DefaultViewpoint,
             points |-> Len(arr.rows),
             data |-> "binary_compressed"],
     pc_data |-> arr.rows]

StrSeq(ns) == [i \in 1..Len(ns) |-> IntToStr(ns[i])]

\* write_header: the header lines of a metadata record.
WriteHeader(md) ==
    << <<"VERSION", "0.7">>,
       <<"FIELDS">> \o md.fields,
       <<"SIZE">> \o StrSeq(md.size),
       <<"TYPE">> \o md.type,
       <<"COUNT">> \o StrSeq(md.count),
       <<"WIDTH", IntToStr(md.width)>>,
       <<"HEIGHT", IntToStr(md.height)>>,
       <<"VIEWPOINT">> \o StrSeq(md.viewpoint),
       <<"POINTS", IntToStr(md.points)>>,
       <<"DATA", md.data>> >>

\* The digits an ascii payload writes for a float.
AsciiDigits == 9

\* The decimal text h/100.
Dec(h) == [k |-> "dec", v |-> h]

\* One ascii token: a float is written in decimal to AsciiDigits significant
\* digits (the cell v stands for v/4 = 25v/100), an integer in full.
AsciiToken(type, a) ==
    IF type = "F" /\ isfinite(a) THEN Dec(RoundSig(25 * a.v, 10, AsciiDigits)) ELSE a

\* A token cast to the field's native type: the nearest 32-bit float, or the
\* 64-bit float of the decimal (held in hundredths when it is no multiple of 1/4).
CastToken(type, size, a) ==
    IF a.k # "dec" THEN a
    ELSE IF a.v % 25 = 0 THEN (IF size = 4 THEN AstypeFloat32(Fin(a.v \div 25))
                               ELSE Fin(a.v \div 25))
    ELSE IF size = 4 THEN Fin(RoundRat(a.v, 25, 2, MantissaBits))
    ELSE [k |-> "fin", v |-> a.v, per |-> 100]

RECURSIVE RunLengths(_)
\* The compression step: runs of equal cells as <<cell, length>> pairs.
RunLengths(s) ==
    IF s = <<>> THEN <<>>
    ELSE LET rest == RunLengths(Tail(s))
         IN  IF rest # <<>> /\ rest[1][1] = Head(s)
             THEN <<<<Head(s), rest[1][2] + 1>>>> \o Tail(rest)
             ELSE <<<<Head(s), 1>>>> \o rest

RECURSIVE Expand(_)
\* Decompression: every run written out.
Expand(runs) ==
    IF runs = <<>> THEN <<>>
    ELSE [i \in 1..runs[1][2] |-> runs[1][1]] \o Expand(Tail(runs))

\* Record-major layout: point by point, field by field.
RowMajor(rows) == Flatten(rows)

\* Column-major layout: every value of field 1, then every value of field 2, ...
ColMajor(rows, nfields) ==
    Flatten([j \in 1..nfields |-> [i \in 1..Len(rows) |-> rows[i][j]]])

SumSeq(ns) == LET RECURSIVE S(_)
                  S(i) == IF i = 0 THEN 0 ELSE ns[i] + S(i - 1)
              IN  S(Len(ns))

\* The payload of a cloud in the encoding md.data.
EncodePayload(md, rows) ==
    CASE md.data = "ascii" ->
           [i \in 1..Len(rows) |->
               [j \in 1..Len(md.fields) |-> AsciiToken(md.type[j], rows[i][j])]]
      [] md.data = "binary" -> RowMajor(rows)
      [] OTHER ->
           LET comp == RunLengths(ColMajor(rows, Len(md.fields)))
           IN  [compressed_size |-> Len(comp),
                uncompressed_size |-> md.points * SumSeq(md.size),
                data |-> comp]

\* to_bytes / save_pcd: the header re-tagged with the compression, then the payload.
ToBytes(cloud, compression) ==
    IF compression \notin ValidCompressions
    THEN Raise("compression must be one of ascii, binary, binary_compressed")
    ELSE LET md == [cloud.md EXCEPT !.data = compression]
         IN  Ok([header |-> WriteHeader(md), payload |-> EncodePayload(md, cloud.pc_data)])

\* Only upper-case keys are recognised.
LowerKey_Mut(k) ==
    CASE k = "VERSION" -> "version" [] k = "FIELDS" -> "fields" [] k = "SIZE" -> "size"
      [] k = "TYPE" -> "type" [] k = "COUNT" -> "count" [] k = "WIDTH" -> "width"
      [] k = "HEIGHT" -> "height" [] k = "VIEWPOINT" -> "viewpoint"
      [] k = "POINTS" -> "points" [] k = "DATA" -> "data" [] OTHER -> "#"

\* Header keys are matched case-insensitively.
LowerKey(k) ==
    CASE k \in {"VERSION", "version"} -> "version"
      [] k \in {"FIELDS", "fields"} -> "fields"
      [] k \in {"SIZE", "size"} -> "size"
      [] k \in {"TYPE", "type"} -> "type"
      [] k \in {"COUNT", "count"} -> "count"
      [] k \in {"WIDTH", "width"} -> "width"
      [] k \in {"HEIGHT", "height"} -> "height"
      [] k \in {"VIEWPOINT", "viewpoint"} -> "viewpoint"
      [] k \in {"POINTS", "points"} -> "points"
      [] k \in {"DATA", "data"} -> "data"
      [] OTHER -> "#"

HasKey(lines, key) == \E i \in 1..Len(lines) : lines[i] # <<>> /\ LowerKey(lines[i][1]) = key
\* The tokens that follow `key` on its header line.
TokensOf(lines, key) ==
    Tail(lines[CHOOSE i \in 1..Len(lines) : lines[i] # <<>> /\ LowerKey(lines[i][1]) = key])
AllNumeric(toks) == \A i \in 1..Len(toks) : IsNumeric(toks[i])
IntSeq(toks) == [i \in 1..Len(toks) |-> StrToInt(toks[i])]

\* parse_header: the metadata of the header lines, or MalformedHeader.
ParseHeader(lines) ==
    LET required == {"version", "fields", "size", "type", "width", "height", "points", "data"}
        numeric == {"size", "count", "width", "height", "viewpoint", "points"}
    IN  IF \E k \in required : ~HasKey(lines, k) \/ TokensOf(lines, k) = <<>>
        THEN Raise("MalformedHeader")
        ELSE IF \E k \in numeric : HasKey(lines, k) /\ ~AllNumeric(TokensOf(lines, k))
        THEN Raise("MalformedHeader")
        ELSE LET fields == TokensOf(lines, "fields")
                 count == IF HasKey(lines, "count") THEN IntSeq(TokensOf(lines, "count"))
                          ELSE [i \in 1..Len(fields) |-> 1]
                 md == [version |-> TokensOf(lines, "version")[1],
                        fields |-> fields,
                        size |-> IntSeq(TokensOf(lines, "size")),
                        type |-> TokensOf(lines, "type"),
                        count |-> count,
                        width |-> StrToInt(TokensOf(lines, "width")[1]),
                        height |-> StrToInt(TokensOf(lines, "height")[1]),
                        viewpoint |-> IF HasKey(lines, "viewpoint")
                                      THEN IntSeq(TokensOf(lines, "viewpoint"))
                                      ELSE DefaultViewpoint,
                        points |-> StrToInt(TokensOf(lines, "points")[1]),
                        data |-> TokensOf(lines, "data")[1]]
             IN  IF Len(md.size) # Len(fields) \/ Len(md.type) # Len(fields)
                    \/ Len(count) # Len(fields)
                 THEN Raise("MalformedHeader")
                 ELSE Ok(md)

\* Rows rebuilt from a record-major sequence of cells.
FromRowMajor(cells, n, nfields) ==
    [i \in 1..n |-> [j \in 1..nfields |-> cells[(i - 1) * nfields + j]]]

\* The cells are read point by point although they were written field by field.
FromColMajor_Mut(cells, n, nfields) == FromRowMajor(cells, n, nfields)

\* Rows rebuilt from a column-major sequence of cells.
FromColMajor(cells, n, nfields) ==
    [i \in 1..n |-> [j \in 1..nfields |-> cells[(j - 1) * n + i]]]

\* The rows of a payload read as md.data says, or the codec's error.
DecodePayload(md, payload) ==
    LET nf == Len(md.fields) IN
    CASE md.data = "ascii" ->
           IF Len(payload) < md.points \/ \E i \in 1..md.points : Len(payload[i]) # nf
           THEN Raise("TruncatedPayload")
           ELSE Ok([i \in 1..md.points |->
                      [j \in 1..nf |-> CastToken(md.type[j], md.size[j], payload[i][j])]])
      [] md.data = "binary" ->
           IF Len(payload) < md.points * nf THEN Raise("TruncatedPayload")
           ELSE Ok(FromRowMajor(payload, md.points, nf))
      [] md.data = "binary_compressed" ->
           IF Len(payload.data) < payload.compressed_size THEN Raise("TruncatedPayload")
           ELSE IF payload.uncompressed_size # md.points * SumSeq(md.size)
                   \/ Len(Expand(payload.data)) # md.points * nf
           THEN Raise("PayloadLengthMismatch")
           ELSE Ok(FromColMajor(Expand(payload.data), md.points, nf))
      [] OTHER -> Raise("MalformedHeader")

\* PointCloud.from_bytes / from_path: header, then payload; any codec error
\* surfaces as one load failure.
FromBytes(bytes) ==
    LET h == ParseHeader(bytes.header)
        d == DecodePayload(h.val, bytes.payload)
    IN  IF Raised(h) THEN Raise("InvalidPcdFile")
        ELSE IF \E i \in 1..Len(h.val.fields) :
                   NumpyTypeOf(h.val.type[i], h.val.size[i]) = "unsupported"
        THEN Raise("InvalidPcdFile")
        ELSE IF Raised(d) THEN Raise("InvalidPcdFile")
        ELSE Ok([md |-> h.val, pc_data |-> d.val])

----------------------------------------------------------------------------
(* Inputs.  Coordinates are integers; the sample cloud of the tests,       *)
(* (0, 0.5, -1, 1), (1.5, -0.25, 0, 2), (3, 2, 0.75, 0.5), is written in    *)
(* units of 1/4.                                                           *)

XYZI(fmt) == << <<"x", fmt>>, <<"y", fmt>>, <<"z", fmt>>, <<"intensity", fmt>> >>

IntRows(m) == [i \in 1..Len(m) |-> [j \in 1..Len(m[i]) |-> Fin(m[i][j])]]

\* make_sample_point_cloud
SampleArray ==
    [dtype |-> XYZI("f4"),
     rows |-> IntRows(<< <<0, 2, -4, 4>>, <<6, -1, 0, 8>>, <<12, 8, 3, 2>> >>)]

\* Rows 2 and 3 hold a non-finite cell; rows 1 and 4 are finite.
PartlyFiniteArray ==
    [dtype |-> XYZI("f4"),
     rows |-> << <<Fin(1), Fin(1), Fin(1), Fin(5)>>, <<NaN, Fin(0), Fin(0), Fin(1)>>,
                 <<Fin(2), Fin(0), Fin(1), PInf>>, <<Fin(3), Fin(2), Fin(1), Fin(7)>> >>]

\* No row is finite.
NonFiniteArray ==
    [dtype |-> XYZI("f4"),
     rows |-> << <<NaN, Fin(0), Fin(0), Fin(1)>>, <<Fin(0), Fin(0), NInf, Fin(1)>>,
                 <<Fin(0), PInf, Fin(0), Fin(1)>> >>]

EmptyArray == [dtype |-> XYZI("f4"), rows |-> <<>>]

\* 64-bit float fields holding values that are not 32-bit floats.
WideArray ==
    [dtype |-> XYZI("f8"),
     rows |-> IntRows(<< <<16777217, 0, 1, 16777219>>, <<3, 33554434, -16777217, 5>> >>)]

\* An integer intensity beside float coordinates.
MixedArray ==
    [dtype |-> << <<"x", "f4">>, <<"y", "f4">>, <<"z", "f4">>, <<"intensity", "u1">> >>,
     rows |-> IntRows(<< <<1, 2, 3, 200>>, <<-1, 0, 2, 0>> >>)]

\* The fields of header1 of the tests: the intensity column is named i.
NoIntensityArray ==
    [dtype |-> << <<"x", "f4">>, <<"y", "f4">>, <<"z", "f4">>, <<"i", "f4">> >>,
     rows |-> SampleArray.rows]

XYZIArrays ==
    {SampleArray, PartlyFiniteArray, NonFiniteArray, EmptyArray, WideArray, MixedArray}

Clouds == {FromArray(a) : a \in XYZIArrays \cup {NoIntensityArray}}

\* Well-formed boxes.
Box(x, y, z, l, w, h) ==
    [k \in BoxRequiredKeys |->
        CASE k = "x" -> x [] k = "y" -> y [] k = "z" -> z
          [] k = "length" -> l [] k = "width" -> w [] OTHER -> h]
BoxYawed(x, y, z, l, w, h, yaw) ==
    [k \in BoxRequiredKeys \cup {"yaw"} |->
        IF k = "yaw" THEN yaw ELSE Box(x, y, z, l, w, h)[k]]

AxisBoxes ==
    {Box(0, 0, 0, 2, 2, 2), Box(1, -1, 0, 4, 2, 2), Box(0, 0, 1, 3, 1, 2),
     Box(2, -2, 2, 0, 0, 0), BoxYawed(0, 1, 0, 2, 4, 0, 0)}
TurnedBoxes == {BoxYawed(0, 0, 0, 4, 2, 2, 1), BoxYawed(1, 0, 0, 2, 0, 4, 3)}
GoodBoxes == AxisBoxes \cup TurnedBoxes
\* A box with a required key missing.
BadBox == [k \in BoxRequiredKeys \ {"height"} |-> 1]

Range(s) == {s[i] : i \in 1..Len(s)}
SeqsUpTo(S, n) == UNION {[1..k -> S] : k \in 0..n}

GridPoints ==
    {<<Fin(x), Fin(y), Fin(z), Fin(9)>> :
        x \in -MaxGrid..MaxGrid, y \in -MaxGrid..MaxGrid, z \in -MaxGrid..MaxGrid}

\* N x 4 arrays of finite points with distinct intensities.
LineArray == [i \in 1..5 |-> <<Fin(i - 3), Fin(0), Fin(0), Fin(10 + i)>>]
DiagArray == [i \in 1..4 |-> <<Fin(i - 2), Fin(2 - i), Fin(i - 2), Fin(20 + i)>>]
PointArrays == {LineArray, DiagArray, SampleArray.rows, <<>>}

----------------------------------------------------------------------------
(* The state: pc is the position of the running call ("idle" before any),  *)
(* call its arguments, loc its local variables, ret what it returned or    *)
(* raised.                                                                  *)

Init ==
    /\ pc = "idle"
    /\ call = <<>>
    /\ loc = <<>>
    /\ ret = <<>>

(* The geometry operations, one call each. *)

\* _validate_transform_matrix(transform)
CallValidateTransform ==
    /\ pc = "idle"
    /\ \E t \in Transforms :
        /\ call' = [transform |-> t]
        /\ ret' = LET v == ValidateTransformMatrix(t)
                  IN  IF v = "ok" THEN Ok("None") ELSE Raise(v)
    /\ pc' = "validate_transform"
    /\ UNCHANGED loc

\* _apply_transform_to_points(x, y, z, intensity, transform), as its callers
\* call it: on the columns of a cloud and a validated transform.
CallApplyTransform ==
    /\ pc = "idle"
    /\ \E a \in XYZIArrays, t \in ValidTransforms :
        LET e == ExtractPointCloudData(FromArray(a)).val
        IN  /\ call' = [x |-> e.x, y |-> e.y, z |-> e.z, intensity |-> e.intensity,
                        transform |-> t]
            /\ ret' = ApplyTransformToPoints(e.x, e.y, e.z, e.intensity, t)
    /\ pc' = "apply_transform"
    /\ UNCHANGED loc

\* transform_point_cloud(pc, transform)
CallTransformPointCloud ==
    /\ pc = "idle"
    /\ \E c \in Clouds, t \in Transforms :
        /\ call' = [cloud |-> c, transform |-> t]
        /\ ret' = TransformPointCloud(c, t)
    /\ pc' = "transform_point_cloud"
    /\ UNCHANGED loc

\* _point_in_3d_box(points, box)
CallPointInBox ==
    /\ pc = "idle"
    /\ \E pts \in {<<p>> : p \in GridPoints} \cup PointArrays, b \in GoodBoxes :
        /\ call' = [points |-> pts, box |-> b]
        /\ ret' = Ok(PointIn3dBox(pts, b))
    /\ pc' = "point_in_box"
    /\ UNCHANGED loc

\* _filter_points_by_ignore_areas(points, ignore_areas)
CallFilterIgnoreAreas ==
    /\ pc = "idle"
    /\ \E pts \in PointArrays, boxes \in SeqsUpTo(GoodBoxes \cup {BadBox}, MaxBoxes) :
        /\ call' = [points |-> pts, ignore_areas |-> boxes]
        /\ ret' = FilterPointsByIgnoreAreas(pts, boxes)
    /\ pc' = "filter_ignore_areas"
    /\ UNCHANGED loc

NextGeom ==
    \/ CallValidateTransform
    \/ CallApplyTransform
    \/ CallTransformPointCloud
    \/ CallPointInBox
    \/ CallFilterIgnoreAreas

SpecGeom == Init /\ [][NextGeom]_vars

----------------------------------------------------------------------------
(* fusion_pcd_bytes and fusion_pcd.  datas is the sensor dict in insertion *)
(* order, a sequence of [name, bytes] (or [name, file]); calib is the      *)
(* calibration dict, a sequence of [name, transform].  Sensor names are    *)
(* the numbers 1..MaxSensors.                                              *)

\* numpy_array_to_structured_array: an N x 4 array as an (x, y, z, intensity)
\* structured array of 32-bit floats.
NumpyArrayToStructuredArray(arr) ==
    IF \E i \in 1..Len(arr) : Len(arr[i]) # 4 THEN Raise("Expected a Nx4 numpy array")
    ELSE IF arr = <<>> THEN Raise("arr cannot be empty")
    ELSE Ok([dtype |-> XYZI("f4"), rows |-> AstypeFloat32Rows(arr)])

SampleBytes == ToBytes(FromArray(SampleArray), "binary_compressed").val
PartlyFiniteBytes == ToBytes(FromArray(PartlyFiniteArray), "ascii").val
NonFiniteBytes == ToBytes(FromArray(NonFiniteArray), "binary").val
NoIntensityBytes == ToBytes(FromArray(NoIntensityArray), "binary").val
\* Bytes that are no PCD file.
GarbageBytes == [header |-> <<>>, payload |-> <<>>]

\* Byte strings are held by name: a bytes argument is the name of one of the
\* byte strings below, and Blob(name) is its content.
Blob(name) ==
    CASE name = "sample" -> SampleBytes
      [] name = "partly_finite" -> PartlyFiniteBytes
      [] name = "non_finite" -> NonFiniteBytes
      [] name = "no_intensity" -> NoIntensityBytes
      [] OTHER -> GarbageBytes
\* The bytes offered to fusion_pcd_bytes.
FusionBlobs == {"sample", "garbage"}

\* A path names a file that exists, with its content, or no file.
File(b) == [exists |-> TRUE, bytes |-> b]
NoFile == [exists |-> FALSE, bytes |-> "garbage"]
\* The files offered to fusion_pcd.
FusionFiles == {File("partly_finite"), File("non_finite"), NoFile}

\* transform_pcd_from_bytes
TransformPcdFromBytes(pcd_bytes, t) ==
    LET l == FromBytes(Blob(pcd_bytes))
    IN  IF Raised(l) THEN Raise("Failed to load PCD from bytes")
        ELSE TransformPointCloud(l.val, t)

\* transform_pcd, on the file found at the path.
TransformPcd(file, t) ==
    LET l == FromBytes(Blob(file.bytes))
    IN  IF ~file.exists THEN Raise("PCD file not found")
        ELSE IF Raised(l) THEN Raise("Failed to load PCD file")
        ELSE TransformPointCloud(l.val, t)

Names(entries) == {entries[i].name : i \in 1..Len(entries)}
\* calib[sensor]
CalibOf(calib, name) ==
    calib[CHOOSE i \in 1..Len(calib) : calib[i].name = name].transform

\* Every calibration entry is validated, also those of sensors not in datas.
BadCalib_Mut(datas, calib) ==
    {i \in 1..Len(calib) : ValidateTransformMatrix(calib[i].transform) # "ok"}

\* The calibration entries of sensors of datas that fail validation, by position.
BadCalib(datas, calib) ==
    {i \in 1..Len(calib) :
        calib[i].name \in Names(datas) /\ ValidateTransformMatrix(calib[i].transform) # "ok"}

\* The messages of the two argument checks, for the argument named arg
\* ("datas" in fusion_pcd, "datas_bytes" in fusion_pcd_bytes).
EmptyArgsError(arg) ==
    IF arg = "datas" THEN "datas and calib cannot be empty"
    ELSE "datas_bytes and calib cannot be empty"
MissingCalibError(arg) ==
    IF arg = "datas" THEN "All sensors in datas must have corresponding calibration in calib"
    ELSE "All sensors in datas_bytes must have corresponding calibration in calib"

\* No transform is validated before the loop over the sensors.
FusionArgError_Mut(arg, datas, calib) ==
    IF datas = <<>> \/ calib = <<>> THEN EmptyArgsError(arg)
    ELSE IF ~(Names(datas) \subseteq Names(calib)) THEN MissingCalibError(arg)
    ELSE ""

\* The argument checks of fusion_pcd and fusion_pcd_bytes that precede the loop
\* over the sensors: "" or the message of the ValueError raised.
FusionArgError(arg, datas, calib) ==
    IF datas = <<>> \/ calib = <<>> THEN EmptyArgsError(arg)
    ELSE IF ~(Names(datas) \subseteq Names(calib)) THEN MissingCalibError(arg)
    ELSE IF BadCalib(datas, calib) # {}
    THEN ValidateTransformMatrix(calib[Kth(BadCalib(datas, calib), 1)].transform)
    ELSE ""

BadShapeTransform == Eye(3, 3)
NaNTransform == WithEntry(Identity, 1, 4, NaN)
FusionTransforms == {Identity, Translate, BadShapeTransform, NaNTransform}
\* No calibration entry for the sensor.
NoCalib == [absent |-> TRUE]

\* The dict {i: c[i]} without the absent entries, in the order of the names.
CalibDict(c) ==
    LET present == {i \in DOMAIN c : c[i] # NoCalib}
    IN  [k \in 1..Cardinality(present) |->
            [name |-> Kth(present, k), transform |-> c[Kth(present, k)]]]

\* The calibration dicts offered with n sensors: any entry or none for each of
\* them, and for the other names no entry, a valid or a malformed one.
CalibChoices(n) ==
    {c \in [1..MaxSensors -> FusionTransforms \cup {NoCalib}] :
        \A i \in (n + 1)..MaxSensors : c[i] \in {NoCalib, Identity, NaNTransform}}

Compressions == ValidCompressions \cup {"zip"}

\* The local variables of a fusion call when its loop starts.
LoopStart == [i |-> 1, point_clouds |-> <<>>, log |-> <<>>]

Processed(name, n) == [sensor |-> name, event |-> "Processed", detail |-> n]
Failed(name, e) == [sensor |-> name, event |-> "Warning: Failed to process", detail |-> e]

\* The end of a fusion call: vstack, structured array, PointCloud, bytes.
FuseAndEncode(point_clouds, compression) ==
    LET fused_points == Flatten(point_clouds)
        structured_array == NumpyArrayToStructuredArray(fused_points)
    IN  IF point_clouds = <<>> THEN Raise("No valid point clouds to fuse")
        ELSE IF Raised(structured_array) THEN structured_array
        ELSE ToBytes(FromArray(structured_array.val), compression)

\* The call is made without the compression argument.
Omitted == "<omitted>"
\* compression: str = "binary_compressed"
CompressionArg(given) == IF given = Omitted THEN "binary_compressed" ELSE given

\* Any compression passes the check.
CompressionError_Mut(compression) == ""

\* The check of the compression format in fusion_pcd_bytes: "" or the message
\* of the ValueError raised.
CompressionError(compression) ==
    IF compression \notin ValidCompressions
    THEN "compression must be one of ascii, binary, binary_compressed"
    ELSE ""

\* fusion_pcd_bytes(datas_bytes, calib, compression): the checks before the loop.
FusionPcdBytesStart ==
    /\ pc = "idle"
    /\ \E blobs \in SeqsUpTo(FusionBlobs, MaxSensors), given \in Compressions \cup {Omitted} :
       \E c \in CalibChoices(Len(blobs)) :
        LET datas == [i \in 1..Len(blobs) |-> [name |-> i, bytes |-> blobs[i]]]
            calib == CalibDict(c)
            compression == CompressionArg(given)
            e == FusionArgError("datas_bytes", datas, calib)
        IN  /\ call' = [datas |-> datas, calib |-> calib, compression |-> compression,
                        given |-> given]
            /\ IF CompressionError(compression) # ""
               THEN /\ pc' = "fusion_pcd_bytes_done"
                    /\ ret' = Raise(CompressionError(compression))
               ELSE IF e # ""
               THEN /\ pc' = "fusion_pcd_bytes_done"
                    /\ ret' = Raise(e)
               ELSE /\ pc' = "fusion_pcd_bytes_loop"
                    /\ ret' = <<>>
    /\ loc' = LoopStart

\* One iteration of the loop of fusion_pcd_bytes over the sensors.
FusionPcdBytesSensor ==
    /\ pc = "fusion_pcd_bytes_loop"
    /\ loc.i <= Len(call.datas)
    /\ LET d == call.datas[loc.i]
           r == TransformPcdFromBytes(d.bytes, CalibOf(call.calib, d.name))
       IN  loc' = IF Raised(r)
                  THEN [loc EXCEPT !.i = @ + 1, !.log = Append(@, Failed(d.name, r.err))]
                  ELSE [loc EXCEPT !.i = @ + 1,
                                   !.point_clouds = Append(@, r.val),
                                   !.log = Append(@, Processed(d.name, Len(r.val)))]
    /\ UNCHANGED <<pc, call, ret>>

\* fusion_pcd_bytes after the loop.
FusionPcdBytesFinish ==
    /\ pc = "fusion_pcd_bytes_loop"
    /\ loc.i > Len(call.datas)
    /\ ret' = FuseAndEncode(loc.point_clouds, call.compression)
    /\ pc' = "fusion_pcd_bytes_done"
    /\ UNCHANGED <<call, loc>>

\* fusion_pcd(datas, calib, save_path): the checks before the loop.
FusionPcdStart ==
    /\ pc = "idle"
    /\ \E files \in SeqsUpTo(FusionFiles, MaxSensors) :
       \E c \in CalibChoices(Len(files)) :
        LET datas == [i \in 1..Len(files) |-> [name |-> i, file |-> files[i]]]
            calib == CalibDict(c)
            e == FusionArgError("datas", datas, calib)
        IN  /\ call' = [datas |-> datas, calib |-> calib, save_path |-> "save_path"]
            /\ IF e # ""
               THEN /\ pc' = "fusion_pcd_done"
                    /\ ret' = Raise(e)
               ELSE IF \E i \in 1..Len(datas) : ~datas[i].file.exists
               THEN /\ pc' = "fusion_pcd_done"
                    /\ ret' = Raise("PCD file not found")
               ELSE /\ pc' = "fusion_pcd_loop"
                    /\ ret' = <<>>
    /\ loc' = LoopStart

\* One iteration of the loop of fusion_pcd over the sensors.
FusionPcdSensor ==
    /\ pc = "fusion_pcd_loop"
    /\ loc.i <= Len(call.datas)
    /\ LET d == call.datas[loc.i]
           r == TransformPcd(d.file, CalibOf(call.calib, d.name))
       IN  loc' = IF Raised(r)
                  THEN [loc EXCEPT !.i = @ + 1, !.log = Append(@, Failed(d.name, r.err))]
                  ELSE [loc EXCEPT !.i = @ + 1,
                                   !.point_clouds = Append(@, r.val),
                                   !.log = Append(@, Processed(d.name, Len(r.val)))]
    /\ UNCHANGED <<pc, call, ret>>

\* fusion_pcd after the loop: the fused cloud is saved, binary_compressed, at
\* save_path, which is returned; ret holds the saved bytes.
FusionPcdFinish ==
    /\ pc = "fusion_pcd_loop"
    /\ loc.i > Len(call.datas)
    /\ ret' = FuseAndEncode(loc.point_clouds, "binary_compressed")
    /\ pc' = "fusion_pcd_done"
    /\ UNCHANGED <<call, loc>>

----------------------------------------------------------------------------
(* fuse_pointclouds(lidar_objs).  lidar_objs is a list of                  *)
(* [name, bytes, ignore_areas]; loc.stage is the statement of the loop     *)
(* body the current entry has reached, loc.cur the value it carries,       *)
(* loc.steps the statements run for it so far and loc.outcome how each     *)
(* finished entry ended.                                                   *)

FuseBlobs == {"sample", "partly_finite", "non_finite", "no_intensity", "garbage"}

\* Holds the second point of the sample cloud, on its boundary.
SomeBox == Box(6, 0, 0, 2, 2, 2)
\* Holds every finite point of the clouds above.
WholeBox == Box(6, 3, 0, 12, 12, 8)
FuseBoxLists == {<<>>, <<SomeBox>>, <<SomeBox, WholeBox>>, <<SomeBox, BadBox>>}

FuseLoopStart ==
    [i |-> 1, stage |-> "load", cur |-> <<>>, steps |-> <<>>,
     point_clouds |-> <<>>, log |-> <<>>, outcome |-> <<>>]

\* The current entry is done: on to the next one.
NextEntry(l, result, line) ==
    [l EXCEPT !.i = @ + 1, !.stage = "load", !.cur = <<>>, !.steps = <<>>,
              !.log = Append(@, line),
              !.outcome = Append(@, [result |-> result, steps |-> Append(l.steps, l.stage)])]

\* The current entry moves on to the next statement of the loop body.
NextStage(l, stage, cur) ==
    [l EXCEPT !.stage = stage, !.cur = cur, !.steps = Append(@, l.stage)]

\* fuse_pointclouds: the argument checks (entries are well typed).
FuseStart ==
    /\ pc = "idle"
    /\ \E objs \in SeqsUpTo([name : {"lidar"}, bytes : FuseBlobs, ignore_areas : FuseBoxLists],
                            MaxEntries) :
        /\ call' = [lidar_objs |-> objs]
        /\ IF objs = <<>>
           THEN /\ pc' = "fuse_pointclouds_done"
                /\ ret' = Raise("lidar_objs cannot be empty")
           ELSE /\ pc' = "fuse_pointclouds_loop"
                /\ ret' = <<>>
    /\ loc' = FuseLoopStart

FuseEntry == call.lidar_objs[loc.i]

FuseAt(stage) ==
    /\ pc = "fuse_pointclouds_loop"
    /\ loc.i <= Len(call.lidar_objs)
    /\ loc.stage = stage

\* pc = pypcd.PointCloud.from_bytes(pcd_bytes)
FuseLoad ==
    /\ FuseAt("load")
    /\ LET l == FromBytes(Blob(FuseEntry.bytes))
       IN  loc' = IF Raised(l)
                  THEN NextEntry(loc, "Skipped", Failed(FuseEntry.name, l.err))
                  ELSE NextStage(loc, "extract", l.val)
    /\ UNCHANGED <<pc, call, ret>>

\* x, y, z, intensity = _extract_point_cloud_data(pc)
FuseExtract ==
    /\ FuseAt("extract")
    /\ LET e == ExtractPointCloudData(loc.cur)
       IN  loc' = IF Raised(e)
                  THEN NextEntry(loc, "Skipped", Failed(FuseEntry.name, e.err))
                  ELSE NextStage(loc, "mask", e.val)
    /\ UNCHANGED <<pc, call, ret>>

\* The finite-value mask and the N x 4 array of the finite points.
FuseMask ==
    /\ FuseAt("mask")
    /\ LET c == loc.cur
           valid_mask == FiniteMask(c.x, c.y, c.z, c.intensity)
           points == AstypeFloat32Rows(ColumnStack(
                         <<MaskSelect(c.x, valid_mask), MaskSelect(c.y, valid_mask),
                           MaskSelect(c.z, valid_mask), MaskSelect(c.intensity, valid_mask)>>))
       IN  loc' = IF ~AnyTrue(valid_mask)
                  THEN NextEntry(loc, "Skipped",
                                 [sensor |-> FuseEntry.name,
                                  event |-> "Warning: No valid points found", detail |-> 0])
                  ELSE NextStage(loc, "filter", points)
    /\ UNCHANGED <<pc, call, ret>>

\* The points are moved by a transform before the boxes are applied.
FuseFilter_Mut ==
    /\ FuseAt("filter")
    /\ LET moved == AstypeFloat32Rows(SetIntensityColumn(
                        MatMulRows(Translate,
                                   [i \in 1..Len(loc.cur) |-> [loc.cur[i] EXCEPT ![4] = Fin(1)]]),
                        [i \in 1..Len(loc.cur) |-> loc.cur[i][4]]))
           f == FilterPointsByIgnoreAreas(moved, FuseEntry.ignore_areas)
       IN  loc' = IF FuseEntry.ignore_areas = <<>> THEN NextStage(loc, "collect", loc.cur)
                  ELSE IF Raised(f)
                  THEN NextEntry(loc, "Skipped", Failed(FuseEntry.name, f.err))
                  ELSE NextStage(loc, "collect", f.val)
    /\ UNCHANGED <<pc, call, ret>>

\* if ignore_areas: points = _filter_points_by_ignore_areas(points, ignore_areas)
FuseFilter ==
    /\ FuseAt("filter")
    /\ LET f == FilterPointsByIgnoreAreas(loc.cur, FuseEntry.ignore_areas)
       IN  loc' = IF FuseEntry.ignore_areas = <<>> THEN NextStage(loc, "collect", loc.cur)
                  ELSE IF Raised(f)
                  THEN NextEntry(loc, "Skipped", Failed(FuseEntry.name, f.err))
                  ELSE NextStage(loc, "collect", f.val)
    /\ UNCHANGED <<pc, call, ret>>

\* if len(points) > 0: point_clouds.append(points)
FuseCollect ==
    /\ FuseAt("collect")
    /\ loc' = IF Len(loc.cur) > 0
              THEN [NextEntry(loc, "Fused", Processed(FuseEntry.name, Len(loc.cur)))
                       EXCEPT !.point_clouds = Append(@, loc.cur)]
              ELSE NextEntry(loc, "Skipped",
                             [sensor |-> FuseEntry.name,
                              event |-> "Warning: No points remaining after filtering",
                              detail |-> 0])
    /\ UNCHANGED <<pc, call, ret>>

\* fuse_pointclouds after the loop.
FuseFinish ==
    /\ pc = "fuse_pointclouds_loop"
    /\ loc.i > Len(call.lidar_objs)
    /\ ret' = FuseAndEncode(loc.point_clouds, "binary_compressed")
    /\ pc' = "fuse_pointclouds_done"
    /\ UNCHANGED <<call, loc>>

NextFusion ==
    \/ FusionPcdBytesStart
    \/ FusionPcdBytesSensor
    \/ FusionPcdBytesFinish
    \/ FusionPcdStart
    \/ FusionPcdSensor
    \/ FusionPcdFinish
    \/ FuseStart
    \/ FuseLoad
    \/ FuseExtract
    \/ FuseMask
    \/ FuseFilter
    \/ FuseCollect
    \/ FuseFinish

SpecFusion == Init /\ [][NextFusion]_vars

----------------------------------------------------------------------------
(* Properties of the geometry operations. *)

\* Row r (1..3) of t applied to the homogeneous point [x, y, z, 1].
Lin(t, r, x, y, z) ==
    t.rows[r][1].v * x + t.rows[r][2].v * y + t.rows[r][3].v * z + t.rows[r][4].v

WellFormedTransform(t) ==
    /\ t.ndarray
    /\ Len(t.rows) = 4
    /\ \A i \in 1..4 : Len(t.rows[i]) = 4
    /\ \A i \in 1..4, j \in 1..4 : t.rows[i][j] \notin NonFinite

\* C5: validate_transform accepts a transform iff it is exactly 4x4 with 16
\* finite entries; every other one fails with InvalidTransform, and
\* transform_point_cloud then returns no point array.
C5_ValidateTransform ==
    /\ pc = "validate_transform" =>
          /\ (ret.err = "") <=> WellFormedTransform(call.transform)
          /\ ret.err # "" => ret.err \in InvalidTransformErrors
    /\ (pc = "transform_point_cloud" /\ ~WellFormedTransform(call.transform)) =>
          /\ ret.err \in InvalidTransformErrors
          /\ "val" \notin DOMAIN ret

C5_Witness ==
    /\ pc = "transform_point_cloud"
    /\ call.cloud = FromArray(SampleArray)
    /\ call.transform = WithEntry(Identity, 4, 4, NInf)
    /\ ret = Raise("Transform matrix contains invalid values (NaN or Inf)")

\* The indices of the all-finite rows of the columns passed to apply_transform.
FiniteRowsOfCall ==
    {i \in 1..Len(call.x) :
        {call.x[i], call.y[i], call.z[i], call.intensity[i]} \cap NonFinite = {}}

\* What apply_transform returns for input row i: the first three components of
\* T [x, y, z, 1] and the intensity, as 32-bit floats.
ExpectedRowOfCall(i) ==
    LET t == call.transform
        x == call.x[i].v
        y == call.y[i].v
        z == call.z[i].v
    IN  <<Fin(RoundF32(Lin(t, 1, x, y, z))), Fin(RoundF32(Lin(t, 2, x, y, z))),
          Fin(RoundF32(Lin(t, 3, x, y, z))), Fin(RoundF32(call.intensity[i].v))>>

\* C6: apply_transform keeps exactly the rows whose x, y, z and intensity are
\* all finite, each once and in the original order, and fails with
\* NoValidPoints when there is none (the empty input included).
C6_FiniteRowsKept ==
    pc = "apply_transform" =>
        IF FiniteRowsOfCall = {}
        THEN ret = Raise("No valid points found after filtering NaN values")
        ELSE /\ ret.err = ""
             /\ Len(ret.val) = Cardinality(FiniteRowsOfCall)
             /\ \A k \in 1..Len(ret.val) :
                    ret.val[k] = ExpectedRowOfCall(Kth(FiniteRowsOfCall, k))

C6_Witness ==
    /\ pc = "apply_transform"
    /\ call.x = <<Fin(1), NaN, Fin(2), Fin(3)>>
    /\ call.intensity = <<Fin(5), Fin(1), PInf, Fin(7)>>
    /\ call.transform = Translate
    /\ ret.err = ""
    /\ Len(ret.val) = 2
    /\ ret.val[2] = <<Fin(4), Fin(4), Fin(0), Fin(7)>>

\* C7 as stated: the 4th output column is the original intensity and columns
\* 1-3 are the first three components of T [x, y, z, 1], exactly.
C7_Original ==
    (pc = "apply_transform" /\ ret.err = "") =>
        \A k \in 1..Len(ret.val) :
            LET i == Kth(FiniteRowsOfCall, k)
                t == call.transform
            IN  /\ ret.val[k][4] = call.intensity[i]
                /\ \A c \in 1..3 :
                      ret.val[k][c] = Fin(Lin(t, c, call.x[i].v, call.y[i].v, call.z[i].v))

\* C7, amended: the 4th output column is the original intensity converted to a
\* 32-bit float, never the homogeneous weight, and columns 1-3 are the first
\* three components of T [x, y, z, 1] converted to 32-bit floats.
C7_IntensityColumn ==
    (pc = "apply_transform" /\ ret.err = "") =>
        \A k \in 1..Len(ret.val) :
            LET i == Kth(FiniteRowsOfCall, k)
                t == call.transform
            IN  /\ ret.val[k][4] = Fin(RoundF32(call.intensity[i].v))
                /\ \A c \in 1..3 :
                      ret.val[k][c] =
                          Fin(RoundF32(Lin(t, c, call.x[i].v, call.y[i].v, call.z[i].v)))

\* A transform whose last row is not [0,0,0,1]: the weight of row 1 is
\* 0 + (-4) + 3 = -1 and the output holds the intensity 4.
C7_Witness ==
    /\ pc = "apply_transform"
    /\ call.transform = Projective
    /\ call.x = <<Fin(0), Fin(6), Fin(12)>>
    /\ ret.err = ""
    /\ ret.val[1] = <<Fin(1), Fin(-2), Fin(-4), Fin(4)>>

\* The (x, y, z, intensity) rows of the cloud a call was given.
InputRowsOfCall ==
    IF pc = "apply_transform"
    THEN ColumnStack(<<call.x, call.y, call.z, call.intensity>>)
    ELSE LET c == call.cloud
         IN  [i \in 1..Len(c.pc_data) |->
                 <<c.pc_data[i][FieldIndex(c, "x")], c.pc_data[i][FieldIndex(c, "y")],
                   c.pc_data[i][FieldIndex(c, "z")], c.pc_data[i][FieldIndex(c, "intensity")]>>]

\* The call is a transform with the identity of a non-empty cloud of finite points.
IdentityCallOnFinite ==
    /\ pc \in {"apply_transform", "transform_point_cloud"}
    /\ call.transform = Identity
    /\ pc = "transform_point_cloud" => RequiredFields \subseteq FieldSet(call.cloud)
    /\ InputRowsOfCall # <<>>
    /\ \A i \in 1..Len(InputRowsOfCall) : Range(InputRowsOfCall[i]) \cap NonFinite = {}

C9_ClosedBoundary ==
    (pc = "point_in_box" /\ BoxYaw(call.box) = 0) =>
        /\ Len(ret.val) = Len(call.points)
        /\ \A i \in 1..Len(call.points) :
              LET p == call.points[i]
                  b == call.box
              IN  ret.val[i] <=>
                    /\ 2 * Abs(p[1].v - b["x"]) <= b["length"]
                    /\ 2 * Abs(p[2].v - b["y"]) <= b["width"]
                    /\ 2 * Abs(p[3].v - b["z"]) <= b["height"]

\* The corner (1, -1, 1) of the box of half-extents 1 around the origin.
C9_Witness ==
    /\ pc = "point_in_box"
    /\ call.box = Box(0, 0, 0, 2, 2, 2)
    /\ call.points = << <<Fin(1), Fin(-1), Fin(1), Fin(9)>> >>
    /\ ret.val = <<TRUE>>

\* The indices of the points of the filter call that lie in none of its boxes.
OutsideAllBoxes ==
    {i \in 1..Len(call.points) :
        \A b \in 1..Len(call.ignore_areas) :
            ~PointIn3dBox(<<call.points[i]>>, call.ignore_areas[b])[1]}

\* C10: filter_ignore_areas returns exactly the points that lie in none of the
\* boxes, in their order and with their intensity; an empty box list returns
\* the input.
C10_FilterIgnoreAreas ==
    (pc = "filter_ignore_areas"
       /\ \A b \in 1..Len(call.ignore_areas) : BoxRequiredKeys \subseteq DOMAIN call.ignore_areas[b])
    => /\ ret.err = ""
       /\ ret.val = Pick(call.points, OutsideAllBoxes)
       /\ call.ignore_areas = <<>> => ret.val = call.points

\* Two disjoint boxes, one holding point 4 and one holding point 2 of the array.
C10_Witness ==
    /\ pc = "filter_ignore_areas"
    /\ call.points = DiagArray
    /\ call.ignore_areas = <<Box(2, -2, 2, 0, 0, 0), BoxYawed(0, 1, 0, 2, 4, 0, 0)>>
    /\ ret = Ok(<<DiagArray[1], DiagArray[3]>>)

----------------------------------------------------------------------------
(* Properties of the fusion calls. *)

\* The structured array a named byte string was written from.
ArrayOf(name) ==
    CASE name = "sample" -> SampleArray
      [] name = "partly_finite" -> PartlyFiniteArray
      [] name = "non_finite" -> NonFiniteArray
      [] name = "no_intensity" -> NoIntensityArray

\* The indices of the rows of an (x, y, z, intensity) array that are all finite.
FiniteRows(rows) == {i \in 1..Len(rows) : Range(rows[i]) \cap NonFinite = {}}

\* Row r under transform t, as 32-bit floats: T [x, y, z, 1] and the intensity.
TransformedRow(t, r) ==
    <<Fin(RoundF32(Lin(t, 1, r[1].v, r[2].v, r[3].v))),
      Fin(RoundF32(Lin(t, 2, r[1].v, r[2].v, r[3].v))),
      Fin(RoundF32(Lin(t, 3, r[1].v, r[2].v, r[3].v))),
      Fin(RoundF32(r[4].v))>>

\* The rows a sensor contributes to fusion_pcd / fusion_pcd_bytes: none when its
\* bytes do not load, its finite rows transformed otherwise.
SensorRows(name, t) ==
    IF name = "garbage" THEN <<>>
    ELSE LET rows == ArrayOf(name).rows
             kept == Pick(rows, FiniteRows(rows))
         IN  [k \in 1..Len(kept) |-> TransformedRow(t, kept[k])]

\* A point lies in a well-formed box (yaw in quarter turns).
InBox(r, b) ==
    LET dx == r[1].v - b["x"]
        dy == r[2].v - b["y"]
        dz == r[3].v - b["z"]
        q == (IF "yaw" \in DOMAIN b THEN b["yaw"] ELSE 0) % 4
        lx == CASE q = 0 -> dx [] q = 1 -> dy [] q = 2 -> -dx [] OTHER -> -dy
        ly == CASE q = 0 -> dy [] q = 1 -> -dx [] q = 2 -> -dy [] OTHER -> dx
    IN  2 * Abs(lx) <= b["length"] /\ 2 * Abs(ly) <= b["width"] /\ 2 * Abs(dz) <= b["height"]

\* An entry of fuse_pointclouds fails: its bytes do not load, a required field
\* is missing, or (once it has finite points) a box lacks a required key.
EntryFails(e) ==
    \/ e.bytes = "garbage"
    \/ e.bytes = "no_intensity"
    \/ /\ FiniteRows(ArrayOf(e.bytes).rows) # {}
       /\ \E b \in 1..Len(e.ignore_areas) : ~(BoxRequiredKeys \subseteq DOMAIN e.ignore_areas[b])

\* The rows an entry contributes to fuse_pointclouds: its finite rows that lie
\* in none of its boxes.
EntryRows(e) ==
    IF EntryFails(e) THEN <<>>
    ELSE LET rows == ArrayOf(e.bytes).rows
             kept == {i \in FiniteRows(rows) :
                         \A b \in 1..Len(e.ignore_areas) : ~InBox(rows[i], e.ignore_areas[b])}
         IN  [k \in 1..Cardinality(kept) |->
                 [c \in 1..4 |-> Fin(RoundF32(rows[Kth(kept, k)][c].v))]]

RECURSIVE ConcatAll(_, _)
\* f[1] \o f[2] \o ... \o f[n]
ConcatAll(f, n) == IF n = 0 THEN <<>> ELSE ConcatAll(f, n - 1) \o f[n]

\* A finished call of fusion_pcd or fusion_pcd_bytes on 3 sensors with loadable
\* clouds of finite points, a calibration entry each and a valid compression.
ThreeLoadableSensors ==
    /\ pc \in {"fusion_pcd_bytes_done", "fusion_pcd_done"}
    /\ Len(call.datas) = 3
    /\ pc = "fusion_pcd_bytes_done" =>
          /\ call.compression \in ValidCompressions
          /\ \A i \in 1..3 : call.datas[i].bytes = "sample"
    /\ pc = "fusion_pcd_done" =>
          \A i \in 1..3 : call.datas[i].file = File("partly_finite")
    /\ Names(call.datas) \subseteq Names(call.calib)

\* The sensors of the call whose calibration transform is malformed.
MalformedSensors ==
    {i \in 1..Len(call.datas) : ~WellFormedTransform(CalibOf(call.calib, call.datas[i].name))}

\* The rows of the cloud the call returned (or saved).
OutputCloud == FromBytes(ret.val).val

C2_SkipAndContinue ==
    pc = "fuse_pointclouds_done" /\ call.lidar_objs # <<>> =>
        /\ Len(loc.outcome) = Len(call.lidar_objs)
        /\ \A i \in 1..Len(call.lidar_objs) :
              loc.outcome[i].result =
                  IF EntryRows(call.lidar_objs[i]) = <<>> THEN "Skipped" ELSE "Fused"
        /\ ret.err \in {"", "No valid point clouds to fuse"}
        /\ ret = Raise("No valid point clouds to fuse")
              <=> \A i \in 1..Len(loc.outcome) : loc.outcome[i].result = "Skipped"
        /\ ret.err = "" => OutputCloud.md.points > 0

\* The first entry does not load and is skipped, the second is still processed
\* and fused.
C2_Witness ==
    /\ pc = "fuse_pointclouds_done"
    /\ Len(call.lidar_objs) = 2
    /\ call.lidar_objs[1].bytes = "garbage"
    /\ call.lidar_objs[2] = [name |-> "lidar", bytes |-> "sample", ignore_areas |-> <<SomeBox>>]
    /\ loc.outcome[1].result = "Skipped"
    /\ loc.outcome[2].result = "Fused"
    /\ ret.err = ""

\* The rows each sensor of a finished fusion call contributes, in input order.
ContributedRows ==
    CASE pc = "fusion_pcd_bytes_done" ->
           [i \in 1..Len(call.datas) |->
               SensorRows(call.datas[i].bytes, CalibOf(call.calib, call.datas[i].name))]
      [] pc = "fusion_pcd_done" ->
           [i \in 1..Len(call.datas) |->
               SensorRows(call.datas[i].file.bytes, CalibOf(call.calib, call.datas[i].name))]
      [] pc = "fuse_pointclouds_done" ->
           [i \in 1..Len(call.lidar_objs) |-> EntryRows(call.lidar_objs[i])]

\* C3: the fused output is the concatenation, in input order, of the surviving
\* rows of the sensors: its point count is the sum of their counts, the rows of
\* an earlier sensor precede those of a later one and each sensor's rows keep
\* their order.
C3_ConcatenationInInputOrder ==
    (pc \in {"fusion_pcd_bytes_done", "fusion_pcd_done", "fuse_pointclouds_done"}
       /\ ret.err = "") =>
        /\ OutputCloud.pc_data = ConcatAll(ContributedRows, Len(ContributedRows))
        /\ OutputCloud.md.points =
              SumSeq([i \in 1..Len(ContributedRows) |-> Len(ContributedRows[i])])
        /\ OutputCloud.md.fields = <<"x", "y", "z", "intensity">>

\* The 3-point sample cloud fused with itself under identity transforms.
C3_Witness ==
    /\ pc = "fusion_pcd_bytes_done"
    /\ Len(call.datas) = 2
    /\ Names(call.datas) \subseteq Names(call.calib)
    /\ \A i \in 1..2 : call.datas[i].bytes = "sample" /\ CalibOf(call.calib, i) = Identity
    /\ ret.err = ""
    /\ OutputCloud.md.points = 6
    /\ OutputCloud.pc_data = SampleArray.rows \o SampleArray.rows

----------------------------------------------------------------------------
(* Round trips through the codec: from_array, to_bytes / save_pcd, then     *)
(* from_bytes / from_path on what was written.                              *)

\* 32-bit floats beyond 2^24 quarter units.
BigF32Rows == IntRows(<< <<33554432, -67108872, 40000004, 16777216>> >>)

\* 64-bit floats with more than AsciiDigits significant decimal digits:
\* 40000001 stands for 10000000.25.
PreciseRows == IntRows(<< <<40000001, 1, -40000003, 2>>, <<5, 50000001, 0, 40000002>> >>)

F32Rows ==
    {SampleArray.rows, PartlyFiniteArray.rows, NonFiniteArray.rows, <<>>, LineArray,
     DiagArray, BigF32Rows}
F64Rows == F32Rows \cup {WideArray.rows, PreciseRows}
SignedRows == {SampleArray.rows, LineArray, DiagArray, BigF32Rows, PreciseRows, <<>>}
UnsignedRows == {IntRows(<< <<1, 2, 3, 200>>, <<0, 0, 255, 7>> >>), <<>>}

\* A cloud of one field, and one of five.
OneFieldArray == [dtype |-> << <<"range", "f8">> >>, rows |-> IntRows(<< <<40000001>>, <<3>> >>)]
FiveFieldArray ==
    [dtype |-> << <<"x", "f4">>, <<"y", "f4">>, <<"z", "f4">>, <<"intensity", "u1">>,
                  <<"timestamp", "f8">> >>,
     rows |-> IntRows(<< <<1, 2, 3, 200, 50000001>>, <<-1, 0, 2, 0, 50000003>> >>)]

CodecArrays ==
    {[dtype |-> XYZI("f4"), rows |-> r] : r \in F32Rows}
      \cup {[dtype |-> XYZI("f8"), rows |-> r] : r \in F64Rows}
      \cup {[dtype |-> XYZI(f), rows |-> r] : f \in {"i4", "i8"}, r \in SignedRows}
      \cup {[dtype |-> XYZI(f), rows |-> r] : f \in {"u1", "u2"}, r \in UnsignedRows}
      \cup {MixedArray, NoIntensityArray, OneFieldArray, FiveFieldArray}

\* PointCloud.from_array(arr)
CallFromArray ==
    /\ pc = "idle"
    /\ \E arr \in CodecArrays :
        /\ call' = [arr |-> arr]
        /\ ret' = Ok(FromArray(arr))
    /\ pc' = "from_array"
    /\ UNCHANGED loc

\* cloud.to_bytes(compression) / cloud.save_pcd(path, compression) on the cloud
\* just built.
CallToBytes ==
    /\ pc = "from_array"
    /\ \E compression \in Compressions :
        /\ call' = [cloud |-> ret.val, compression |-> compression]
        /\ ret' = ToBytes(ret.val, compression)
    /\ pc' = "to_bytes"
    /\ UNCHANGED loc

\* PointCloud.from_bytes / from_path on the bytes just written.
CallFromBytes ==
    /\ pc = "to_bytes"
    /\ ~Raised(ret)
    /\ call' = [cloud |-> call.cloud, compression |-> call.compression, bytes |-> ret.val]
    /\ ret' = FromBytes(ret.val)
    /\ pc' = "from_bytes"
    /\ UNCHANGED loc

\* The metadata of header1 of the tests (with a width the model can count).
Header1Md ==
    [version |-> "0.7", fields |-> <<"x", "y", "z", "i">>, size |-> <<4, 4, 4, 4>>,
     type |-> <<"F", "F", "F", "F">>, count |-> <<1, 1, 1, 1>>, width |-> 12, height |-> 1,
     viewpoint |-> DefaultViewpoint, points |-> 12, data |-> "binary_compressed"]
\* An organized cloud seen from another viewpoint, with a field of count 3.
OrganizedMd ==
    [version |-> ".7", fields |-> <<"x", "rgb", "label">>, size |-> <<8, 1, 2>>,
     type |-> <<"F", "U", "I">>, count |-> <<1, 3, 1>>, width |-> 4, height |-> 2,
     viewpoint |-> <<1, 2, 3, 0, 1, 0, 0>>, points |-> 8, data |-> "ascii"]
\* An empty cloud of one field.
EmptyMd ==
    [version |-> "0.7", fields |-> <<"range">>, size |-> <<4>>, type |-> <<"F">>,
     count |-> <<2>>, width |-> 0, height |-> 1, viewpoint |-> DefaultViewpoint,
     points |-> 0, data |-> "binary"]
HeaderMds == {Header1Md, OrganizedMd, EmptyMd}

\* What is wrong with a header, if anything.
HeaderDamages == {"none", "no_fields", "bad_width", "short_size", "no_data"}

\* The recipes of the headers parsed: the metadata written, whether a comment
\* line leads, whether the keys are in lower case, whether the COUNT and the
\* VIEWPOINT lines are there, and the damage done.
HeaderRecipes ==
    [md : HeaderMds, comment : BOOLEAN, lower : BOOLEAN, count : BOOLEAN,
     viewpoint : BOOLEAN, damage : HeaderDamages]

HeaderKey(k, lower) ==
    IF ~lower THEN k
    ELSE CASE k = "VERSION" -> "version" [] k = "FIELDS" -> "fields" [] k = "SIZE" -> "size"
           [] k = "TYPE" -> "type" [] k = "COUNT" -> "count" [] k = "WIDTH" -> "width"
           [] k = "HEIGHT" -> "height" [] k = "VIEWPOINT" -> "viewpoint"
           [] k = "POINTS" -> "points" [] OTHER -> "data"

\* The header lines of a recipe.
HeaderLines(h) ==
    LET md == h.md
        L(k, toks) == <<<<HeaderKey(k, h.lower)>> \o toks>>
    IN  (IF h.comment
         THEN << <<"#", ".PCD", "v0.7", "-", "Point", "Cloud", "Data", "file", "format">> >>
         ELSE <<>>)
        \o L("VERSION", <<md.version>>)
        \o (IF h.damage = "no_fields" THEN <<>> ELSE L("FIELDS", md.fields))
        \o L("SIZE", IF h.damage = "short_size" THEN Tail(StrSeq(md.size)) \o <<"4", "4">>
                     ELSE StrSeq(md.size))
        \o L("TYPE", md.type)
        \o (IF h.count THEN L("COUNT", StrSeq(md.count)) ELSE <<>>)
        \o L("WIDTH", IF h.damage = "bad_width" THEN <<"wide">> ELSE <<IntToStr(md.width)>>)
        \o L("HEIGHT", <<IntToStr(md.height)>>)
        \o (IF h.viewpoint THEN L("VIEWPOINT", StrSeq(md.viewpoint)) ELSE <<>>)
        \o L("POINTS", <<IntToStr(md.points)>>)
        \o (IF h.damage = "no_data" THEN <<>> ELSE L("DATA", <<md.data>>))

\* parse_header(lines)
CallParseHeader ==
    /\ pc = "idle"
    /\ \E h \in HeaderRecipes :
        /\ call' = [lines |-> HeaderLines(h), recipe |-> h]
        /\ ret' = ParseHeader(HeaderLines(h))
    /\ pc' = "parse_header"
    /\ UNCHANGED loc

NextCodec == CallFromArray \/ CallToBytes \/ CallFromBytes \/ CallParseHeader

SpecCodec == Init /\ [][NextCodec]_vars

----------------------------------------------------------------------------
(* PointCloud objects that live side by side, as the locals of              *)
(* test_cat_pointclouds and test_add_fields do.  loc is the object store:    *)
(* loc.mds the metadata objects, loc.bufs the buffers ([dtype, rows]),       *)
(* loc.clouds the PointCloud objects, each a pair of references into the two *)
(* (and, for a copy, the cloud it was copied from).  pc names the last       *)
(* operation, call its arguments and the clouds as they were before it, ret  *)
(* its result.                                                               *)

\* At most MaxClouds PointCloud objects are alive.
MaxClouds == 3

\* The cloud (metadata and buffer) behind the i-th PointCloud object.
View(l, i) ==
    [md |-> l.mds[l.clouds[i].md],
     dtype |-> l.bufs[l.clouds[i].buf].dtype,
     pc_data |-> l.bufs[l.clouds[i].buf].rows]

Views(l) == [i \in 1..Len(l.clouds) |-> View(l, i)]

EmptyStore == [mds |-> <<>>, bufs |-> <<>>, clouds |-> <<>>]

\* The store in which the clouds live: empty before the first one is built.
Store == IF loc = <<>> THEN EmptyStore ELSE loc

\* A new PointCloud object around a fresh metadata object and a fresh buffer.
NewCloud(l, c, origin) ==
    [l EXCEPT !.mds = Append(@, c.md),
              !.bufs = Append(@, [dtype |-> c.dtype, rows |-> c.pc_data]),
              !.clouds = Append(@, [md |-> Len(l.mds) + 1, buf |-> Len(l.bufs) + 1,
                                    copy_of |-> origin])]

\* A shallow copy: the new object refers to the metadata and buffer of the old.
CopyCloud_Mut(l, i) ==
    [l EXCEPT !.clouds = Append(@, [md |-> l.clouds[i].md, buf |-> l.clouds[i].buf,
                                    copy_of |-> i])]

\* cloud.copy(): a deep copy of metadata and buffer.
CopyCloud(l, i) == NewCloud(l, View(l, i), i)

\* from_array, keeping the array as the buffer.
CloudOfArray(arr) ==
    [md |-> FromArray(arr).md, dtype |-> arr.dtype, pc_data |-> arr.rows]

\* from_bytes: the buffer layout is rebuilt from the header through the type map.
CloudOfBytes(bytes) ==
    LET r == FromBytes(bytes)
    IN  IF Raised(r) THEN r
        ELSE Ok([md |-> r.val.md,
                 dtype |-> [i \in 1..Len(r.val.md.fields) |->
                              <<r.val.md.fields[i],
                                NumpyTypeOf(r.val.md.type[i], r.val.md.size[i])>>],
                 pc_data |-> r.val.pc_data])

\* Field lists are compared by their length alone.
CatPointClouds_Mut(a, b) ==
    IF Len(a.md.fields) # Len(b.md.fields) THEN Raise("IncompatibleFields")
    ELSE Ok([md |-> [a.md EXCEPT !.width = a.md.width + b.md.width,
                                 !.points = a.md.points + b.md.points],
             dtype |-> a.dtype,
             pc_data |-> a.pc_data \o b.pc_data])

\* cat_point_clouds(a, b)
CatPointClouds(a, b) ==
    IF a.md.fields # b.md.fields \/ a.md.type # b.md.type \/ a.md.size # b.md.size
          \/ a.md.count # b.md.count
    THEN Raise("IncompatibleFields")
    ELSE Ok([md |-> [a.md EXCEPT !.width = a.md.width + b.md.width,
                                 !.points = a.md.points + b.md.points],
             dtype |-> a.dtype,
             pc_data |-> a.pc_data \o b.pc_data])

\* The new columns are attached to the buffer; the metadata keeps its fields.
AddFields_Mut(c, dtype, cols) ==
    IF Len(cols) # c.md.points THEN Raise("new columns do not match the cloud's points")
    ELSE Ok([md |-> c.md,
             dtype |-> c.dtype \o dtype,
             pc_data |-> [i \in 1..Len(cols) |-> c.pc_data[i] \o cols[i]]])

\* add_fields(cloud, metadata, pc_data): dtype names and types the new fields,
\* cols holds one row of new cells per point.
AddFields(c, dtype, cols) ==
    IF Len(cols) # c.md.points THEN Raise("new columns do not match the cloud's points")
    ELSE Ok([md |-> [c.md EXCEPT
                       !.fields = @ \o [i \in 1..Len(dtype) |-> dtype[i][1]],
                       !.size = @ \o [i \in 1..Len(dtype) |-> PcdSizeOf(dtype[i][2])],
                       !.type = @ \o [i \in 1..Len(dtype) |-> PcdTypeOf(dtype[i][2])],
                       !.count = @ \o [i \in 1..Len(dtype) |-> 1]],
             dtype |-> c.dtype \o dtype,
             pc_data |-> [i \in 1..Len(cols) |-> c.pc_data[i] \o cols[i]]])

\* The arrays clouds are built from: the sample of the tests, one with another
\* name for the 4th field, one with 64-bit fields, and one with two fields.
CloudArrays ==
    {SampleArray, NoIntensityArray,
     [dtype |-> XYZI("f8"), rows |-> IntRows(<< <<1, 2, 3, 4>> >>)],
     [dtype |-> << <<"x", "f4">>, <<"y", "f4">> >>, rows |-> IntRows(<< <<5, 6>>, <<7, 8>> >>)]}

\* md of test_add_fields: two 32-bit float fields.
BlaBar == << <<"bla", "f4">>, <<"bar", "f4">> >>
\* n rows of values for the two new fields.
NewColumns(n) == [i \in 1..n |-> <<Fin(i), Fin(-i)>>]

\* The names of the operations on the store.
CloudOps ==
    {"new_from_array", "new_from_bytes", "copied", "concatenated", "fields_added",
     "buffer_mutated", "metadata_mutated"}

CloudsIdle == pc \in CloudOps \cup {"idle"}
Room == Len(Store.clouds) < MaxClouds

\* The store after an operation that returns a new cloud or raises.
Stored(r, origin) == IF Raised(r) THEN Store ELSE NewCloud(Store, r.val, origin)
Returned(r) == IF Raised(r) THEN r ELSE Ok(Len(Store.clouds) + 1)

\* pc = PointCloud.from_array(arr)
CloudFromArray ==
    /\ CloudsIdle /\ Room
    /\ \E arr \in CloudArrays :
        /\ call' = [arr |-> arr, before |-> Views(Store)]
        /\ loc' = NewCloud(Store, CloudOfArray(arr), 0)
    /\ ret' = Ok(Len(Store.clouds) + 1)
    /\ pc' = "new_from_array"

\* PointCloud.from_bytes(cloud.to_bytes(compression)), or from_bytes of bytes
\* that are no PCD file.
CloudFromBytes ==
    /\ CloudsIdle /\ Room
    /\ \/ \E i \in 1..Len(Store.clouds), compression \in ValidCompressions :
            LET r == CloudOfBytes(ToBytes(View(Store, i), compression).val)
            IN  /\ call' = [cloud |-> i, compression |-> compression, before |-> Views(Store)]
                /\ loc' = Stored(r, 0)
                /\ ret' = Returned(r)
       \/ /\ call' = [bytes |-> "garbage", before |-> Views(Store)]
          /\ loc' = Stored(CloudOfBytes(GarbageBytes), 0)
          /\ ret' = Returned(CloudOfBytes(GarbageBytes))
    /\ pc' = "new_from_bytes"

\* pc2 = pc.copy()
CloudCopy ==
    /\ CloudsIdle /\ Room
    /\ \E i \in 1..Len(Store.clouds) :
        /\ call' = [cloud |-> i, before |-> Views(Store)]
        /\ loc' = CopyCloud(Store, i)
    /\ ret' = Ok(Len(Store.clouds) + 1)
    /\ pc' = "copied"

\* pc3 = cat_point_clouds(pc, pc2)
CloudCat ==
    /\ CloudsIdle /\ Room
    /\ \E i, j \in 1..Len(Store.clouds) :
        LET r == CatPointClouds(View(Store, i), View(Store, j))
        IN  /\ call' = [a |-> i, b |-> j, before |-> Views(Store)]
            /\ loc' = Stored(r, 0)
            /\ ret' = Returned(r)
    /\ pc' = "concatenated"

\* newpc = add_fields(pc, md, d), with as many new rows as the cloud has
\* points, or one more.
CloudAddFields ==
    /\ CloudsIdle /\ Room
    /\ \E i \in 1..Len(Store.clouds), extra \in {0, 1} :
        LET n == View(Store, i).md.points + extra
            r == AddFields(View(Store, i), BlaBar, NewColumns(n))
        IN  /\ call' = [cloud |-> i, dtype |-> BlaBar, cols |-> NewColumns(n),
                        before |-> Views(Store)]
            /\ loc' = Stored(r, 0)
            /\ ret' = Returned(r)
    /\ pc' = "fields_added"

\* The copy just made, and the cloud it was made from.
CopyPair == {call.cloud, Len(loc.clouds)}

\* pc2.pc_data["x"] += 0.1, written here as one quarter unit, right after
\* pc2 = pc.copy(), on the copy or on the original: the buffer of the cloud is
\* written to in place.
CloudMutateBuffer ==
    /\ pc = "copied"
    /\ \E i \in CopyPair :
        LET b == loc.clouds[i].buf
        IN  /\ loc.bufs[b].rows # <<>>
            /\ "x" \in FieldSet(View(loc, i))
            /\ call' = [cloud |-> i, before |-> Views(loc)]
            /\ loc' = [loc EXCEPT
                         !.bufs[b].rows =
                             [k \in 1..Len(@) |->
                                 [@[k] EXCEPT ![FieldIndex(View(loc, i), "x")] = Fin(@.v + 1)]]]
    /\ ret' = Ok(0)
    /\ pc' = "buffer_mutated"

\* The viewpoint list of the metadata of the copy, or of the original, is
\* written to in place.
CloudMutateMetadata ==
    /\ pc = "copied"
    /\ \E i \in CopyPair :
        LET m == loc.clouds[i].md
        IN  /\ loc.mds[m].viewpoint = DefaultViewpoint
            /\ call' = [cloud |-> i, before |-> Views(loc)]
            /\ loc' = [loc EXCEPT !.mds[m].viewpoint = <<1, 2, 3, 1, 0, 0, 0>>]
    /\ ret' = Ok(0)
    /\ pc' = "metadata_mutated"

NextCloud ==
    \/ CloudFromArray \/ CloudFromBytes \/ CloudCopy \/ CloudCat \/ CloudAddFields
    \/ CloudMutateBuffer \/ CloudMutateMetadata

SpecCloud == Init /\ [][NextCloud]_vars

\* Every call of the model.
Next == NextGeom \/ NextFusion \/ NextCodec \/ NextCloud

Spec == Init /\ [][Next]_vars

\* The metadata a round trip is to give back: the original's, with data the
\* requested compression and version 0.7.
RoundTripMetadata == [call.cloud.md EXCEPT !.data = call.compression, !.version = "0.7"]

FitsAsciiDigits(a) == ~isfinite(a) \/ RoundSig(25 * a.v, 10, AsciiDigits) = 25 * a.v

----------------------------------------------------------------------------
(* The calls that take a compression argument. *)

NextBytes ==
    \/ NextCodec
    \/ FusionPcdBytesStart \/ FusionPcdBytesSensor \/ FusionPcdBytesFinish

SpecBytes == Init /\ [][NextBytes]_vars

\* C13: for ascii, binary and binary_compressed the bytes of to_bytes /
\* save_pcd / fusion_pcd_bytes decode to a cloud whose data tag is the requested
\* value; any other value fails with the compression error before any sensor
\* is processed and without output; fusion_pcd_bytes without the argument
\* writes binary_compressed.
C13_CompressionArgument ==
    /\ pc = "to_bytes" =>
          IF call.compression \in {"ascii", "binary", "binary_compressed"}
          THEN ret.err = "" /\ FromBytes(ret.val).err = ""
                  /\ FromBytes(ret.val).val.md.data = call.compression
          ELSE ret = Raise("compression must be one of ascii, binary, binary_compressed")
    /\ pc = "from_bytes" => ret.err = "" /\ ret.val.md.data = call.compression
    /\ pc = "fusion_pcd_bytes_loop" =>
          call.given \in {"ascii", "binary", "binary_compressed", Omitted}
    /\ pc = "fusion_pcd_bytes_done" =>
          /\ call.given \notin {"ascii", "binary", "binary_compressed", Omitted} =>
                /\ ret = Raise("compression must be one of ascii, binary, binary_compressed")
                /\ loc.i = 1 /\ loc.log = <<>> /\ loc.point_clouds = <<>>
          /\ ret.err = "" =>
                /\ FromBytes(ret.val).err = ""
                /\ OutputCloud.md.data =
                      IF call.given = Omitted THEN "binary_compressed" ELSE call.given

\* fusion_pcd_bytes called without the argument on a loadable sensor.
C13_Witness ==
    /\ pc = "fusion_pcd_bytes_done"
    /\ call.given = Omitted
    /\ ret.err = ""
    /\ ret.val.header[10] = <<"DATA", "binary_compressed">>
    /\ OutputCloud.md.data = "binary_compressed"

----------------------------------------------------------------------------
(* The calibration entries a fusion call depends on. *)

\* calib without the entries of sensors that are not in datas.
OwnCalib == SelectSeq(call.calib, LAMBDA e : e.name \in Names(call.datas))

RECURSIVE Transformed(_, _, _)
\* The arrays of the sensors 1..n of the call that transform without error,
\* with calibration dict calib.
Transformed(n, calib, fromFile) ==
    IF n = 0 THEN <<>>
    ELSE LET d == call.datas[n]
             r == IF fromFile THEN TransformPcd(d.file, CalibOf(calib, d.name))
                  ELSE TransformPcdFromBytes(d.bytes, CalibOf(calib, d.name))
         IN  Transformed(n - 1, calib, fromFile) \o (IF Raised(r) THEN <<>> ELSE <<r.val>>)

\* What the finished call returns or raises when it is given calib.
OutcomeWith(calib) ==
    IF pc = "fusion_pcd_bytes_done"
    THEN IF CompressionError(call.compression) # "" THEN Raise(CompressionError(call.compression))
         ELSE IF FusionArgError("datas_bytes", call.datas, calib) # ""
         THEN Raise(FusionArgError("datas_bytes", call.datas, calib))
         ELSE FuseAndEncode(Transformed(Len(call.datas), calib, FALSE), call.compression)
    ELSE IF FusionArgError("datas", call.datas, calib) # ""
         THEN Raise(FusionArgError("datas", call.datas, calib))
         ELSE IF \E i \in 1..Len(call.datas) : ~call.datas[i].file.exists
         THEN Raise("PCD file not found")
         ELSE FuseAndEncode(Transformed(Len(call.datas), calib, TRUE), "binary_compressed")

\* The ValueErrors of the argument checks.
ArgumentErrors ==
    {EmptyArgsError(a) : a \in {"datas", "datas_bytes"}}
      \cup {MissingCalibError(a) : a \in {"datas", "datas_bytes"}}
      \cup {"compression must be one of ascii, binary, binary_compressed"}

\* C17: a finished fusion_pcd / fusion_pcd_bytes call has the outcome of the
\* same call given only the calibration entries of the sensors in datas: the
\* same bytes, or the same error (the same message, or, when no entry is left,
\* one more of the argument errors); and a sensor of datas without a
\* calibration entry makes the call fail before any sensor is processed.
C17_OnlyOwnCalibMatters ==
    pc \in {"fusion_pcd_bytes_done", "fusion_pcd_done"} =>
        /\ ret = OutcomeWith(call.calib)
        /\ IF OwnCalib # <<>> \/ call.calib = <<>>
           THEN ret = OutcomeWith(OwnCalib)
           ELSE ret.err \in ArgumentErrors /\ OutcomeWith(OwnCalib).err \in ArgumentErrors
        /\ ~(Names(call.datas) \subseteq Names(call.calib)) =>
              /\ ret.err \in ArgumentErrors
              /\ loc = LoopStart

\* Two sensors are fused although a third name has a malformed calibration.
C17_Witness ==
    /\ pc = "fusion_pcd_bytes_done"
    /\ Len(call.datas) = 2
    /\ Len(call.calib) = 3
    /\ call.calib[3] = [name |-> 3, transform |-> NaNTransform]
    /\ ret.err = ""
    /\ ret = OutcomeWith(OwnCalib)
    /\ OutputCloud.md.points = 6

----------------------------------------------------------------------------
(* The statements an entry of a fusion call runs through. *)

FuseSteps == <<"load", "extract", "mask", "filter", "collect">>

IsPrefix(s, t) == Len(s) <= Len(t) /\ \A i \in 1..Len(s) : s[i] = t[i]

\* The entries of fuse_pointclouds that are finished.
FinishedEntries ==
    IF pc \in {"fuse_pointclouds_loop", "fuse_pointclouds_done"}
    THEN 1..Len(loc.outcome) ELSE {}

\* C15 as stated: an entry with ignore boxes has run validate_transform and
\* apply_transform before its boxes are applied.
C15_Original ==
    \A i \in FinishedEntries :
        LET steps == loc.outcome[i].steps IN
        \A k \in 1..Len(steps) :
            (steps[k] = "filter" /\ call.lidar_objs[i].ignore_areas # <<>>) =>
                \E j \in 1..(k - 1) : steps[j] \in {"validate_transform", "apply_transform"}

\* C15, amended: fuse_pointclouds, the one fusion call that takes ignore boxes,
\* applies no transform: every entry runs load, extract, the finite-point mask,
\* the box filter and the append, in that order, up to the statement that skips
\* it; the boxes are applied to the coordinates as loaded; and the entry ends
\* in exactly one of Fused or Skipped.  In fusion_pcd and fusion_pcd_bytes every
\* sensor is transformed, no box is applied, and each sensor ends Processed or
\* Failed.
C15_StepOrder ==
    /\ \A i \in FinishedEntries :
          LET o == loc.outcome[i]
              e == call.lidar_objs[i]
          IN  /\ o.steps # <<>> /\ IsPrefix(o.steps, FuseSteps)
              /\ o.result \in {"Fused", "Skipped"}
              /\ o.result = "Fused" => o.steps = FuseSteps
              /\ o.result = "Fused" <=> EntryRows(e) # <<>>
    /\ pc \in {"fuse_pointclouds_loop", "fuse_pointclouds_done"} =>
          /\ Len(loc.outcome) = (IF loc.i > Len(call.lidar_objs) THEN Len(call.lidar_objs)
                                 ELSE loc.i - 1)
          /\ loc.point_clouds =
                LET fused == {i \in FinishedEntries : loc.outcome[i].result = "Fused"}
                IN  [k \in 1..Cardinality(fused) |-> EntryRows(call.lidar_objs[Kth(fused, k)])]
    /\ pc \in {"fusion_pcd_bytes_loop", "fusion_pcd_loop"} =>
          /\ Len(loc.log) = loc.i - 1
          /\ \A i \in 1..Len(loc.log) :
                /\ loc.log[i].sensor = call.datas[i].name
                /\ loc.log[i].event \in {"Processed", "Warning: Failed to process"}

\* An entry with a box is fused without the point that lies in the box, as loaded.
C15_Witness ==
    /\ pc = "fuse_pointclouds_done"
    /\ call.lidar_objs # <<>>
    /\ call.lidar_objs[1] = [name |-> "lidar", bytes |-> "sample", ignore_areas |-> <<SomeBox>>]
    /\ loc.outcome[1] = [result |-> "Fused", steps |-> FuseSteps]
    /\ loc.point_clouds[1] = <<SampleArray.rows[1], SampleArray.rows[3]>>

----------------------------------------------------------------------------
(* parse_header. *)

\* The metadata a well-formed header of the recipe h stands for.
HeaderMeaning(h) ==
    [h.md EXCEPT !.count = IF h.count THEN @ ELSE [i \in 1..Len(h.md.fields) |-> 1],
                 !.viewpoint = IF h.viewpoint THEN @ ELSE <<0, 0, 0, 1, 0, 0, 0>>]

\* C12: parse_header on a well-formed header, with or without a leading
\* comment line and in either case of the keys, returns the metadata whose
\* entries are the tokens of the header lines (strings for fields, type,
\* version and data, integers for the rest); without COUNT line count is 1 for
\* every field and without VIEWPOINT line viewpoint is [0,0,0,1,0,0,0].
C12_ParseHeader ==
    (pc = "parse_header" /\ call.recipe.damage = "none") =>
        /\ ret = Ok(HeaderMeaning(call.recipe))
        /\ ~call.recipe.count =>
              ret.val.count = [i \in 1..Len(ret.val.fields) |-> 1]
        /\ ~call.recipe.viewpoint => ret.val.viewpoint = <<0, 0, 0, 1, 0, 0, 0>>

\* header1 behind its comment line, in lower case, without COUNT and VIEWPOINT.
C12_Witness ==
    /\ pc = "parse_header"
    /\ call.recipe = [md |-> Header1Md, comment |-> TRUE, lower |-> TRUE, count |-> FALSE,
                      viewpoint |-> FALSE, damage |-> "none"]
    /\ call.lines[2] = <<"version", "0.7">>
    /\ ret.err = ""
    /\ ret.val.fields = <<"x", "y", "z", "i">>
    /\ ret.val.count = <<1, 1, 1, 1>>
    /\ ret.val.width = 12
    /\ ret.val.data = "binary_compressed"

----------------------------------------------------------------------------
(* Properties of the PointCloud operations. *)

\* The clouds of the store, when there is one.
LiveClouds == IF pc \in CloudOps THEN 1..Len(loc.clouds) ELSE {}

\* C11: cat_point_clouds(A, B) succeeds only when A and B have the same field
\* list (names, order and types) and fails with IncompatibleFields otherwise;
\* on success the result has A's fields, width A.width + B.width, and A's rows
\* followed by B's rows.
C11_CatPointClouds ==
    pc = "concatenated" =>
        LET a == call.before[call.a]
            b == call.before[call.b]
        IN  /\ ret.err = "" => a.dtype = b.dtype
            /\ a.dtype # b.dtype => ret = Raise("IncompatibleFields")
            /\ ret.err = "" =>
                  LET c == View(loc, ret.val)
                  IN  /\ c.md.fields = a.md.fields
                      /\ c.dtype = a.dtype
                      /\ c.md.width = a.md.width + b.md.width
                      /\ c.pc_data = a.pc_data \o b.pc_data
                      /\ Len(c.pc_data) = Len(a.pc_data) + Len(b.pc_data)
            /\ ret.err # "" => Views(loc) = call.before

\* test_cat_pointclouds: the sample cloud and its copy with x moved.
C11_Witness ==
    /\ pc = "concatenated"
    /\ call.a = 1 /\ call.b = 2
    /\ loc.clouds[2].copy_of = 1
    /\ call.before[1].pc_data = SampleArray.rows
    /\ call.before[2].pc_data # SampleArray.rows
    /\ ret = Ok(3)
    /\ View(loc, 3).md.width = 6
    /\ View(loc, 3).md.fields = <<"x", "y", "z", "intensity">>

\* Two clouds of the store are a copy and the cloud it was copied from.
CopyRelated(i, j) == loc.clouds[i].copy_of = j \/ loc.clouds[j].copy_of = i

\* C14: copy() returns a cloud equal to the original, and a later write to the
\* buffer or to the metadata of either of the two changes that one and leaves
\* the other as it was.
C14_CopyIsIndependent ==
    /\ pc = "copied" =>
          /\ View(loc, ret.val) = call.before[call.cloud]
          /\ View(loc, call.cloud) = call.before[call.cloud]
    /\ pc \in {"buffer_mutated", "metadata_mutated"} =>
          /\ View(loc, call.cloud) # call.before[call.cloud]
          /\ \A j \in LiveClouds :
                (j # call.cloud /\ CopyRelated(j, call.cloud)) =>
                    View(loc, j) = call.before[j]

\* test_cat_pointclouds: pc2 = pc.copy(); pc2.pc_data["x"] += ...
C14_Witness ==
    /\ pc = "buffer_mutated"
    /\ call.cloud = 2
    /\ loc.clouds[2].copy_of = 1
    /\ call.before[1] = call.before[2]
    /\ View(loc, 1).pc_data = SampleArray.rows
    /\ View(loc, 2).pc_data[1][1] = Fin(1)

\* Metadata and buffer of a cloud agree.
Consistent(c) ==
    /\ Len(c.md.fields) = Len(c.md.size)
    /\ Len(c.md.fields) = Len(c.md.type)
    /\ Len(c.md.fields) = Len(c.md.count)
    /\ \A i \in 1..Len(c.md.count) : c.md.count[i] >= 1
    /\ c.md.points = c.md.width * c.md.height
    /\ Len(c.pc_data) = c.md.points
    /\ \A k \in 1..Len(c.pc_data) : Len(c.pc_data[k]) = Len(c.dtype)
    /\ Len(c.dtype) = Len(c.md.fields)
    /\ \A i \in 1..Len(c.dtype) :
          /\ c.dtype[i][1] = c.md.fields[i]
          /\ PcdTypeOf(c.dtype[i][2]) = c.md.type[i]
          /\ PcdSizeOf(c.dtype[i][2]) = c.md.size[i]

====
